---- MODULE Spec2Model ----
(***************************************************************************)
(* Model of refinery.py (Retrier, Predictor, Validation, FeedbackModule,   *)
(* RetryAdapter) and of the QA example of main.py.                         *)
(*                                                                         *)
(* Optional[T] is modelled as a sequence of length <= 1: None is << >>,    *)
(* a present value x is <<x>>.  Float scores are exact rationals           *)
(* [num, den] compared by cross multiplication.  Strings the code          *)
(* inspects (the answers) are sequences of one-character strings.          *)
(***************************************************************************)
EXTENDS Integers, Sequences, FiniteSets, TLC

VARIABLES
    pc,               \* position of the running call
    caller,           \* "none" | "Retrier" | "Predictor": whose __call__ was invoked
    N,                \* Retrier.N
    threshold,        \* Retrier.threshold
    feedback_module,  \* Retrier.feedback_module (which strategy it is)
    validation,       \* Predictor.validation: Optional[Validation]
    adapter,          \* dspy.settings.adapter: Optional[Adapter]
    scope,            \* the open `with` block of Retrier.forward, if any
    trace,            \* dspy.settings.trace
    feedback,         \* local `feedback` of Retrier.forward: Optional[Feedback]
    output,           \* local `output` (of Predictor.__call__, then of Retrier.forward)
    attempt,          \* number of loop iterations of Retrier.forward started
    exc,              \* the exception in flight or raised to the caller, if any
    result,           \* the value returned to the caller, if any
    adapter0,         \* history: dspy.settings.adapter when the call started
    requests,         \* history: requests that reached the underlying adapter
    outputs,          \* history: Output returned by the Predictor, per attempt
    scored,           \* history: (output, Feedback) the Retrier scored, per attempt
    validated,        \* history: (output, Feedback, result) of each Validation call
    predCalls,        \* history: number of Predictor.__call__ invocations
    engineCalls,      \* history: number of prediction-engine invocations
    scopesOpened,     \* history: number of augmentation scopes opened
    threads,          \* concurrent Retrier.forward invocations: the locals of each
    settings          \* dspy.settings (adapter, trace) of each execution context

\* The concurrent invocations and their execution contexts.
concurrent == <<threads, settings>>

vars == <<pc, caller, N, threshold, feedback_module, validation, adapter, scope,
          trace, feedback, output, attempt, exc, result, adapter0, requests,
          outputs, scored, validated, predCalls, engineCalls, scopesOpened,
          threads, settings>>

(***************************************************************************)
(* Bounds.                                                                 *)
(***************************************************************************)
MaxN == 3

\* The largest N of a Retrier that is invoked concurrently.
MaxConcurrentN == 2

\* Retrier(module=module, feedback_module=feedback_module, N=3, threshold=1.0)
MainN == 3

\* Retrier.__init__ accepts any int for N.
NValues == (0 - 1)..MaxN

(***************************************************************************)
(* Values.                                                                 *)
(***************************************************************************)
None == << >>

Some(x) == <<x>>

Rat(n, d) == [num |-> n, den |-> d]

\* a >= b on floats
GE(a, b) == a.num * b.den >= b.num * a.den

\* A test for None alone: an empty note counts as a hint.
TruthyNotNone(s) == s # None

\* Python truthiness of an Optional[str]: None and "" are falsy.
Truthy(s) == s # None /\ s[1] # ""

Tortoise == <<"T", "o", "r", "t", "o", "i", "s", "e">>

TortoiseTortoise == Tortoise \o <<" ">> \o Tortoise

\* class QA(dspy.Signature): question -> answer
QA == [inputs |-> <<"question">>, outputs |-> <<"answer">>]

\* Question("What land animal has a shell?").toDict()
Question == [question |-> "What land animal has a shell?"]

Answer(answer) == [answer |-> answer]

\* Feedback(evaluation, feedback)
Feedback(evaluation, note) == [evaluation |-> evaluation, feedback |-> note]

(***************************************************************************)
(* Pluggable strategies and the prediction engine (inputs of the model).   *)
(***************************************************************************)
\* Scores a stub FeedbackModule may return (the score is not clamped to [0,1]):
\* below, at and above the Retrier's threshold.
Scores == {Rat(1, 2), Rat(1, 1), Rat(3, 2)}

\* Retrier(..., threshold=1.0)
Thresholds == {Rat(1, 1)}

\* Validation(..., validation_threshold=1.0), and a laxer gate
ValidationThresholds == {Rat(1, 2), Rat(1, 1)}

\* Notes a stub FeedbackModule may return: absent, empty, or a text.
Notes == {None, Some(""), Some("X"), Some("Y")}

\* The feedback strategies the Retrier may score with: main.py's QAFeedback, or
\* a stub whose forward may return any score and note (or raise).
FeedbackModules == {"QAFeedback", "Stub"}

\* The strategy of the Predictor's Validation: the Retrier's own QAFeedback
\* instance (as main.py builds it), or a separate stub that returns any score
\* and no note (or raises).
ValidationModule(fm) == IF fm = "QAFeedback" THEN "QAFeedback" ELSE "GateStub"

\* Answers the prediction engine may give back.
Answers(fm) == IF fm = "QAFeedback" THEN {Tortoise, TortoiseTortoise} ELSE {Tortoise}

\* Adapters the caller may have configured in dspy.settings.
Adapters == {None, Some([kind |-> "JSONAdapter"])}

(***************************************************************************)
(* main.py: QAFeedback.forward                                             *)
(***************************************************************************)
RECURSIVE Count(_, _)
\* str.count(c) for a one-character c
Count(s, c) ==
    IF s = << >> THEN 0
    ELSE (IF Head(s) = c THEN 1 ELSE 0) + Count(Tail(s), c)

\* A QAFeedback that scores a long answer down without saying why.
QAFeedbackForwardNoNote(out) ==
    Feedback(Rat(1, 1 + Count(out.answer, " ")), None)

QAFeedbackForward(out) ==
    LET count == Count(out.answer, " ")
    IN  IF count # 0
        THEN Feedback(Rat(1, 1 + count), Some("The answer is too long"))
        ELSE Feedback(Rat(1, 1), None)

\* FeedbackModule.forward of the strategy fm: the set of Feedbacks it may return.
FeedbackForward(fm, in, out) ==
    IF fm = "QAFeedback"
    THEN {QAFeedbackForward(out)}
    ELSE IF fm = "GateStub"
    THEN {Feedback(s, None) : s \in Scores}
    ELSE {Feedback(s, n) : s \in Scores, n \in Notes}

\* Whether forward of the strategy fm may raise.
FeedbackMayRaise(fm) == fm # "QAFeedback"

\* A record with the two arguments the wrong way round.
TraceEntrySwapsArgs(fm, in, out, fb) ==
    [module |-> fm, args |-> [input |-> out, output |-> in], feedback |-> fb]

\* FeedbackModule.__call__: the record appended to dspy.settings.trace.
TraceEntry(fm, in, out, fb) ==
    [module |-> fm, args |-> [input |-> in, output |-> out], feedback |-> fb]

(***************************************************************************)
(* Validation                                                              *)
(***************************************************************************)
\* A gate that compares the wrong way round.
ValidationForwardInverted(v, fb) == GE(v.validation_threshold, fb.evaluation)

\* Validation.forward: feedback.evaluation >= self.validation_threshold
ValidationForward(v, fb) == GE(fb.evaluation, v.validation_threshold)

\* Predictor.validation: None, or a Validation.
Validations(fm) ==
    {None} \cup {Some([feedback_module |-> ValidationModule(fm),
                       validation_threshold |-> t]) : t \in ValidationThresholds}

(***************************************************************************)
(* RetryAdapter and the request that reaches the underlying adapter.       *)
(***************************************************************************)
\* signature.append(name, dspy.InputField(...)): a derived signature
SignatureAppend(signature, name) ==
    [signature EXCEPT !.inputs = Append(@, name)]

\* A RetryAdapter that forwards the inputs without the hint.
DictMergeDropsValue(inputs, name, value) == inputs

\* inputs | {name: value}
DictMerge(inputs, name, value) ==
    [k \in DOMAIN inputs \cup {name} |-> IF k = name THEN value ELSE inputs[k]]

RetryAdapter(base, note) ==
    [kind |-> "RetryAdapter", adapter |-> base, feedback |-> note]

RECURSIVE AdapterCall(_, _, _)
\* adapter(lm, lm_kwargs, signature, demos, inputs): the request as the
\* underlying (non-retry) adapter receives it.
AdapterCall(a, signature, inputs) ==
    IF a.kind = "RetryAdapter"
    THEN AdapterCall(a.adapter,
                     SignatureAppend(signature, "hint_"),
                     DictMerge(inputs, "hint_", a.feedback))
    ELSE [adapter |-> a.kind, signature |-> signature, inputs |-> inputs]

\* dspy.settings.adapter or dspy.ChatAdapter()
AdapterOrDefault(a) == IF a # None THEN a[1] ELSE [kind |-> "ChatAdapter"]

\* QAModule.forward: self.predictor(**input.toDict()) builds its request with
\* the adapter active at the time of the call.
EngineRequest(a, in) == AdapterCall(AdapterOrDefault(a), QA, in)

(***************************************************************************)
(* Retrier                                                                 *)
(***************************************************************************)
\* A loop that keeps handing over the note of its first scoring.
NoteOfStale(fb) == IF fb # None THEN scored[1].feedback.feedback ELSE None

\* feedback.feedback if feedback else None
NoteOf(fb) == IF fb # None THEN fb[1].feedback ELSE None

\* Retrier.retry_context: the context manager it returns.
retry_context(note, a) ==
    IF ~Truthy(note)
    THEN [kind |-> "nullcontext"]
    ELSE [kind |-> "context",
          adapter |-> RetryAdapter(AdapterOrDefault(a), note[1])]

\* __enter__ of the context manager: dspy.settings.adapter inside the block.
ContextEnter(ctx, a) ==
    IF ctx.kind = "context" THEN Some(ctx.adapter) ELSE a

\* A context manager that does not put the previous adapter back.
ContextExitLeaks(sc, a) == a

\* __exit__ of the context manager (runs on return and on raise alike):
\* dspy.settings.adapter after the block.
ContextExit(sc, a) ==
    IF sc.kind = "context" THEN sc.saved ELSE a

\* A loop that stops one iteration early.
RangeStopsEarly(done, n) == done + 1 < n

\* A loop that runs one iteration too many.
RangeRunsOver(done, n) == done <= n

\* A loop that tests its bound only after the first iteration.
RangeAtLeastOnce(done, n) == done = 0 \/ done < n

\* for _ in range(self.N): whether another iteration starts
RangeHasNext(done, n) == done < n

\* A strict comparison: a score equal to the threshold is rejected.
MeetsThresholdStrict(fb, t) == ~GE(t, fb.evaluation)

\* feedback.evaluation >= self.threshold
MeetsThreshold(fb, t) == GE(fb.evaluation, t)

\* A loop that swallows the exception and goes on to the next attempt.
AfterWithRetries(e) == IF e # None THEN "for" ELSE "score"

\* After the with block: an exception that left it is not caught by
\* Retrier.forward and reaches the caller; otherwise the output is scored.
AfterWith(e) == IF e # None THEN "done" ELSE "score"

(***************************************************************************)
(* The state machine.                                                      *)
(***************************************************************************)
Init ==
    /\ pc = "idle"
    /\ caller = "none"
    /\ N \in NValues
    /\ threshold \in Thresholds
    /\ feedback_module \in FeedbackModules
    /\ validation \in Validations(feedback_module)
    /\ adapter \in Adapters
    /\ scope = None
    /\ trace = << >>
    /\ feedback = None
    /\ output = None
    /\ attempt = 0
    /\ exc = None
    /\ result = None
    /\ adapter0 = adapter
    /\ requests = << >>
    /\ outputs = << >>
    /\ scored = << >>
    /\ validated = << >>
    /\ predCalls = 0
    /\ engineCalls = 0
    /\ scopesOpened = 0
    /\ threads = << >>
    /\ settings = << >>

config == <<N, threshold, feedback_module, validation, adapter0>>

\* An exception that reaches the caller without the with block being left.
UnwindSkipsExit == "done"

\* Where an exception raised inside Predictor.__call__ goes next: out of the
\* Retrier's with block, or straight to the caller of a direct call.
Unwind == IF caller = "Retrier" THEN "exit" ELSE "done"

\* Retrier.__call__ -> Retrier.forward: feedback = None, then the loop.
RetrierCall ==
    /\ pc = "idle"
    /\ pc' = "for"
    /\ caller' = "Retrier"
    /\ feedback' = None
    /\ UNCHANGED <<concurrent, config, adapter, scope, trace, output, attempt, exc, result,
                   requests, outputs, scored, validated, predCalls, engineCalls, scopesOpened>>

\* Predictor.__call__ invoked directly, outside any Retrier.
PredictorCall ==
    /\ pc = "idle"
    /\ pc' = "forward"
    /\ caller' = "Predictor"
    /\ UNCHANGED <<concurrent, config, adapter, scope, trace, feedback, output, attempt, exc,
                   result, requests, outputs, scored, validated, predCalls, engineCalls,
                   scopesOpened>>

\* for _ in range(self.N): ...  /  raise RuntimeError(...)
ForNext ==
    /\ pc = "for"
    /\ IF RangeHasNext(attempt, N)
       THEN /\ attempt' = attempt + 1
            /\ pc' = "with"
            /\ exc' = exc
       ELSE /\ attempt' = attempt
            /\ pc' = "done"
            /\ exc' = Some("RuntimeError")
    /\ UNCHANGED <<concurrent, config, caller, adapter, scope, trace, feedback, output, result,
                   requests, outputs, scored, validated, predCalls, engineCalls, scopesOpened>>

\* with self.retry_context(feedback=feedback.feedback if feedback else None):
EnterRetryContext ==
    /\ pc = "with"
    /\ LET ctx == retry_context(NoteOf(feedback), adapter)
       IN  /\ scope' = Some([kind |-> ctx.kind, saved |-> adapter])
           /\ adapter' = ContextEnter(ctx, adapter)
           /\ scopesOpened' = scopesOpened + (IF ctx.kind = "context" THEN 1 ELSE 0)
    /\ pc' = "forward"
    /\ UNCHANGED <<concurrent, config, caller, trace, feedback, output, attempt, exc, result,
                   requests, outputs, scored, validated, predCalls, engineCalls>>

\* Predictor.__call__, line 85: output = self.forward(input=input)
PredictorForward ==
    /\ pc = "forward"
    /\ predCalls' = predCalls + 1
    /\ engineCalls' = engineCalls + 1
    /\ requests' = Append(requests, [attempt |-> attempt,
                                     request |-> EngineRequest(adapter, Question)])
    /\ \/ \E a \in Answers(feedback_module) :
            /\ output' = Some(Answer(a))
            /\ pc' = IF validation # None THEN "validate" ELSE "return"
            /\ exc' = exc
       \/ /\ output' = output
          /\ pc' = Unwind
          /\ exc' = Some("EngineError")
    /\ UNCHANGED <<concurrent, config, caller, adapter, scope, trace, feedback, attempt, result,
                   outputs, scored, validated, scopesOpened>>

\* Predictor.__call__, lines 86-87:
\* assert self.validation(input=input, output=output)
PredictorValidate ==
    /\ pc = "validate"
    /\ LET v == validation[1]
       IN  \/ \E fb \in FeedbackForward(v.feedback_module, Question, output[1]) :
                /\ trace' = Append(trace, TraceEntry(v.feedback_module, Question,
                                                     output[1], fb))
                /\ validated' = Append(validated, [output |-> output[1],
                                                    feedback |-> fb,
                                                    ok |-> ValidationForward(v, fb)])
                /\ IF ValidationForward(v, fb)
                   THEN pc' = "return" /\ exc' = exc
                   ELSE pc' = Unwind /\ exc' = Some("AssertionError")
           \/ /\ FeedbackMayRaise(v.feedback_module)
              /\ trace' = trace
              /\ validated' = validated
              /\ pc' = Unwind
              /\ exc' = Some("FeedbackError")
    /\ UNCHANGED <<concurrent, config, caller, adapter, scope, feedback, output, attempt, result,
                   requests, outputs, scored, predCalls, engineCalls, scopesOpened>>

\* Predictor.__call__, line 88: return self.forward(input=input)
PredictorReturn ==
    /\ pc = "return"
    /\ engineCalls' = engineCalls + 1
    /\ requests' = Append(requests, [attempt |-> attempt,
                                     request |-> EngineRequest(adapter, Question)])
    /\ \/ \E a \in Answers(feedback_module) :
            /\ output' = Some(Answer(a))
            /\ outputs' = Append(outputs, Answer(a))
            /\ pc' = IF caller = "Retrier" THEN "exit" ELSE "done"
            /\ result' = IF caller = "Retrier" THEN result ELSE Some(Answer(a))
            /\ exc' = exc
       \/ /\ output' = output
          /\ outputs' = outputs
          /\ pc' = Unwind
          /\ result' = result
          /\ exc' = Some("EngineError")
    /\ UNCHANGED <<concurrent, config, caller, adapter, scope, trace, feedback, attempt, scored,
                   validated, predCalls, scopesOpened>>

\* Leaving the with block of Retrier.forward, by return or by raise.
ExitRetryContext ==
    /\ pc = "exit"
    /\ adapter' = ContextExit(scope[1], adapter)
    /\ scope' = None
    /\ pc' = AfterWith(exc)
    /\ UNCHANGED <<concurrent, config, caller, trace, feedback, output, attempt, exc, result,
                   requests, outputs, scored, validated, predCalls, engineCalls, scopesOpened>>

\* feedback = self.feedback_module(input=input, output=output)
Score ==
    /\ pc = "score"
    /\ \/ \E fb \in FeedbackForward(feedback_module, Question, output[1]) :
            /\ feedback' = Some(fb)
            /\ trace' = Append(trace, TraceEntry(feedback_module, Question,
                                                 output[1], fb))
            /\ scored' = Append(scored, [output |-> output[1], feedback |-> fb])
            /\ pc' = "if"
            /\ exc' = exc
       \/ /\ FeedbackMayRaise(feedback_module)
          /\ feedback' = feedback
          /\ trace' = trace
          /\ scored' = scored
          /\ pc' = "done"
          /\ exc' = Some("FeedbackError")
    /\ UNCHANGED <<concurrent, config, caller, adapter, scope, output, attempt, result, requests,
                   outputs, validated, predCalls, engineCalls, scopesOpened>>

\* if feedback.evaluation >= self.threshold: return output
Decide ==
    /\ pc = "if"
    /\ IF MeetsThreshold(feedback[1], threshold)
       THEN pc' = "done" /\ result' = output
       ELSE pc' = "for" /\ result' = result
    /\ UNCHANGED <<concurrent, config, caller, adapter, scope, trace, feedback, output, attempt,
                   exc, requests, outputs, scored, validated, predCalls, engineCalls,
                   scopesOpened>>

Next ==
    \/ RetrierCall
    \/ PredictorCall
    \/ ForNext
    \/ EnterRetryContext
    \/ PredictorForward
    \/ PredictorValidate
    \/ PredictorReturn
    \/ ExitRetryContext
    \/ Score
    \/ Decide

Spec == Init /\ [][Next]_vars

(***************************************************************************)
(* Properties.                                                             *)
(***************************************************************************)
Last(seq) == seq[Len(seq)]

\* Every score the Retrier computed so far is strictly below its threshold.
AllScoredBelow ==
    \A k \in 1..Len(scored) : ~GE(scored[k].feedback.evaluation, threshold)

\* Exceptions raised inside a Predictor or FeedbackModule call.
Propagated == {Some("EngineError"), Some("AssertionError"), Some("FeedbackError")}

\* The requests built during attempt k of the Retrier call.
RequestsOf(k) ==
    {requests[i].request : i \in {j \in 1..Len(requests) : requests[j].attempt = k}}

\* The request as the adapter that was active before the call receives it when
\* nothing is added to it.
PlainRequest ==
    [adapter |-> IF adapter0 = None THEN "ChatAdapter" ELSE adapter0[1].kind,
     signature |-> [inputs |-> <<"question">>, outputs |-> <<"answer">>],
     inputs |-> [question |-> "What land animal has a shell?"]]

\* The same request with one extra input field hint_ carrying the text x.
HintedRequest(x) ==
    [adapter |-> PlainRequest.adapter,
     signature |-> [inputs |-> <<"question", "hint_">>, outputs |-> <<"answer">>],
     inputs |-> [question |-> "What land animal has a shell?", hint_ |-> x]]

\* C1: for N >= 1 and a FeedbackModule whose every score is below the threshold,
\* a Retrier call never returns an Output and never invokes the Predictor more
\* than N times; unless an exception raised inside a Predictor or FeedbackModule
\* call aborted it, it ends with the exhaustion error (RuntimeError) after
\* exactly N Predictor invocations, each of them scored.
C1_ExhaustedAfterN ==
    (caller = "Retrier" /\ N >= 1 /\ AllScoredBelow) =>
        /\ result = None
        /\ predCalls <= N
        /\ exc = Some("RuntimeError") => (pc = "done" /\ predCalls = N /\ Len(scored) = N)
        /\ pc = "done" => (exc \in Propagated \/ exc = Some("RuntimeError"))

\* A call with N = MaxN that ended exhausted after MaxN low scores.
C1_Witness ==
    /\ caller = "Retrier" /\ pc = "done" /\ N = MaxN
    /\ AllScoredBelow /\ Len(scored) = N /\ predCalls = N
    /\ exc = Some("RuntimeError")

\* C2: every request built during attempt 1 of a Retrier call is the plain
\* request (unmodified signature, no hint_ field); when attempt 1 was scored
\* with a non-empty note X, every request built during attempt 2 has the
\* original signature plus the one input field hint_, and hint_ = X.
C2_FeedbackThreading ==
    caller = "Retrier" =>
        /\ \A r \in RequestsOf(1) : r = PlainRequest /\ "hint_" \notin DOMAIN r.inputs
        /\ \A r \in RequestsOf(2) :
              Truthy(scored[1].feedback.feedback) =>
                  r = HintedRequest(scored[1].feedback.feedback[1])

\* Attempt 2 built a request after attempt 1 was scored low with the note "X".
C2_Witness ==
    /\ caller = "Retrier"
    /\ RequestsOf(1) # {} /\ RequestsOf(2) # {}
    /\ scored[1].feedback.feedback = Some("X")
    /\ \E r \in RequestsOf(2) : r.inputs.hint_ = "X"

\* C3: whenever control is outside the with block of Retrier.forward, and in
\* particular when the call has ended (by return, by exhaustion or by an
\* exception of the Predictor or the FeedbackModule), dspy.settings.adapter is
\* the adapter that was active before the call and no scope is left open.
C3_ScopeIsolation ==
    (caller = "Retrier" /\ pc \in {"for", "with", "score", "if", "done"}) =>
        /\ adapter = adapter0
        /\ scope = None

\* A call that ended by an exception raised under an augmentation.
C3_Witness ==
    /\ caller = "Retrier" /\ pc = "done"
    /\ exc \in {Some("EngineError"), Some("AssertionError")}
    /\ attempt >= 2 /\ Truthy(Last(scored).feedback.feedback)
    /\ adapter0 # None

\* C4 (as claimed): every Predictor call makes exactly one prediction-engine
\* invocation, so the two counts agree at every point of a call.
C4_OneEngineCallPerPredictorCall == engineCalls = predCalls

\* C5: a Retrier call returns an Output only if the score it computed for that
\* Output in the attempt that produced it is >= threshold, all earlier attempts
\* having scored below; a scored attempt whose score is >= threshold (equality
\* included) ends the call with its Output; and when every score equals the
\* threshold the call has a single attempt and opens no augmentation scope.
C5_ReturnsFirstPassing ==
    caller = "Retrier" =>
        /\ result # None =>
              /\ pc = "done" /\ exc = None
              /\ Len(scored) = attempt /\ Len(outputs) = attempt
              /\ result = Some(Last(outputs))
              /\ Last(scored).output = Last(outputs)
              /\ GE(Last(scored).feedback.evaluation, threshold)
              /\ \A k \in 1..(attempt - 1) :
                    ~GE(scored[k].feedback.evaluation, threshold)
        /\ (pc \in {"for", "with", "forward", "validate", "return", "exit", "done"}
              /\ scored # << >> /\ GE(Last(scored).feedback.evaluation, threshold)) =>
              (pc = "done" /\ result = Some(Last(scored).output))
        /\ (\A k \in 1..Len(scored) : scored[k].feedback.evaluation = threshold) =>
              (attempt <= 1 /\ scopesOpened = 0)

\* A call that returned at attempt 2 on a score exactly equal to the threshold.
C5_Witness ==
    /\ caller = "Retrier" /\ result # None /\ attempt = 2
    /\ Last(scored).feedback.evaluation = threshold

\* A call with N >= 2 that returned at attempt 1 on a score equal to the threshold.
C5_WitnessFirst ==
    /\ caller = "Retrier" /\ result # None /\ attempt = 1 /\ N >= 2
    /\ Last(scored).feedback.evaluation = threshold

\* Every score the Predictor's Validation computed so far is below its threshold.
AllValidatedBelow ==
    \A k \in 1..Len(validated) :
        ~GE(validated[k].feedback.evaluation, validation[1].validation_threshold)

\* C6: a Predictor whose Validation scores below validation_threshold on every
\* call never returns an Output, called directly or from inside a Retrier: as
\* soon as the Validation has scored the output the call is failing with the
\* validation error (AssertionError), which is what the caller gets, and the
\* only other way a started call ends is an exception of the engine or of the
\* FeedbackModule itself.
C6_ValidationGate ==
    (validation # None /\ AllValidatedBelow) =>
        /\ outputs = << >>
        /\ result = None
        /\ validated # << >> =>
              (pc \in {"exit", "done"} /\ exc = Some("AssertionError"))
        /\ (pc = "done" /\ predCalls >= 1) => exc \in Propagated

\* A direct Predictor call that ended with the validation error.
C6_Witness ==
    /\ caller = "Predictor" /\ pc = "done" /\ validation # None
    /\ validated # << >> /\ AllValidatedBelow
    /\ exc = Some("AssertionError") /\ result = None

\* A Retrier call whose Predictor ended with the validation error.
C6_WitnessRetrier ==
    /\ caller = "Retrier" /\ pc = "done" /\ validation # None
    /\ validated # << >> /\ AllValidatedBelow
    /\ exc = Some("AssertionError") /\ result = None

\* C7 (as claimed): every Output a Predictor with a Validation returns passes
\* that Validation.  Stated for the QAFeedback strategy, whose score is a
\* function of the output.
C7_ReturnedOutputIsValidated ==
    (validation # None /\ feedback_module = "QAFeedback") =>
        \A k \in 1..Len(outputs) :
            GE(QAFeedbackForward(outputs[k]).evaluation,
               validation[1].validation_threshold)

\* C8: once an exception has been raised inside an attempt of a Retrier call
\* (by the engine, the Validation gate or a FeedbackModule), the only step left
\* is leaving the with block: the call ends with that same exception, returns
\* nothing, and makes no further Predictor, engine or FeedbackModule
\* invocation; the attempt is not recorded as scored and no new attempt starts.
C8_ErrorsPropagate ==
    [][(caller = "Retrier" /\ exc # None) =>
          /\ pc' = "done"
          /\ exc' = exc
          /\ result' = None /\ result = None
          /\ predCalls' = predCalls
          /\ engineCalls' = engineCalls
          /\ trace' = trace
          /\ scored' = scored
          /\ validated' = validated
          /\ feedback' = feedback
          /\ attempt' = attempt]_vars

\* A Retrier call ended by the validation error in its second attempt, with
\* attempts left over.
C8_Witness ==
    /\ caller = "Retrier" /\ pc = "done"
    /\ exc = Some("AssertionError")
    /\ attempt = 2 /\ attempt < N
    /\ Len(scored) = 1 /\ predCalls = 2

\* C9: with QAFeedback, N = 3 and threshold 1.0, when the Predictor returns
\* "Tortoise Tortoise" in attempt 1, that attempt is scored 1/2 with the note
\* "The answer is too long"; when it then returns "Tortoise" in attempt 2, the
\* call ends by returning that Output after exactly 2 Predictor invocations,
\* and every request of attempt 2 carried hint_ = "The answer is too long".
C9_EndToEnd ==
    (/\ caller = "Retrier" /\ feedback_module = "QAFeedback"
     /\ N = MainN /\ threshold = Rat(1, 1)
     /\ outputs # << >> /\ outputs[1] = [answer |-> TortoiseTortoise]) =>
        /\ scored # << >> =>
              scored[1].feedback =
                  [evaluation |-> Rat(1, 2),
                   feedback |-> Some("The answer is too long")]
        /\ (Len(outputs) >= 2 /\ outputs[2] = [answer |-> Tortoise]) =>
              /\ \A r \in RequestsOf(2) :
                    r = HintedRequest("The answer is too long")
              /\ pc = "done" =>
                    /\ result = Some([answer |-> Tortoise])
                    /\ exc = None
                    /\ attempt = 2 /\ predCalls = 2 /\ Len(scored) = 2

\* The example run, ended.
C9_Witness ==
    /\ caller = "Retrier" /\ feedback_module = "QAFeedback" /\ validation = None
    /\ N = MainN /\ threshold = Rat(1, 1) /\ pc = "done"
    /\ outputs = <<[answer |-> TortoiseTortoise], [answer |-> Tortoise]>>
    /\ result = Some([answer |-> Tortoise])

\* C10: a Retrier call with N = 1 invokes the Predictor at most once, opens no
\* augmentation scope and builds only plain requests; once its one attempt is
\* scored, the call ends by returning that attempt's Output when the score is
\* >= threshold and by the exhaustion error otherwise.
C10_SingleAttempt ==
    (caller = "Retrier" /\ N = 1) =>
        /\ predCalls <= 1 /\ attempt <= 1 /\ scopesOpened = 0
        /\ adapter = adapter0
        /\ \A i \in 1..Len(requests) : requests[i].request = PlainRequest
        /\ (pc = "done" /\ scored # << >>) =>
              /\ predCalls = 1
              /\ IF GE(scored[1].feedback.evaluation, threshold)
                 THEN result = Some(outputs[1]) /\ exc = None
                 ELSE result = None /\ exc = Some("RuntimeError")
        /\ (pc = "done" /\ exc = Some("RuntimeError")) => predCalls = 1

\* A call with N = 1 that ended exhausted after its single attempt.
C10_Witness ==
    /\ caller = "Retrier" /\ N = 1 /\ pc = "done"
    /\ predCalls = 1 /\ Len(scored) = 1
    /\ exc = Some("RuntimeError") /\ result = None

\* C11: every Validation call returned true exactly when the score its
\* FeedbackModule gave for that (input, output) is >= validation_threshold
\* (num/den >= tnum/tden, equality included), whatever the earlier calls
\* returned; a false result is the one that fails the Predictor's assert; and
\* the Validation (its module and its threshold) never changes after
\* construction.
C11_ValidationCheck ==
    /\ [](\A k \in 1..Len(validated) :
            LET e == validated[k].feedback.evaluation
                t == validation[1].validation_threshold
            IN  /\ validated[k].ok = (e.num * t.den >= t.num * e.den)
                /\ (~validated[k].ok) =>
                      (k = Len(validated) /\ exc = Some("AssertionError")))
    /\ [][validation' = validation]_vars

\* A Retrier call in which the Validation passed a score equal to its
\* threshold in one attempt and rejected a lower one in the next.
C11_Witness ==
    /\ Len(validated) = 2
    /\ validated[1].feedback.evaluation = validation[1].validation_threshold
    /\ validated[1].ok
    /\ ~validated[2].ok
    /\ exc = Some("AssertionError")

\* The adapter an augmentation must wrap: the one active before the call, or
\* the default ChatAdapter when none was configured.
OriginalBase == IF adapter0 = None THEN [kind |-> "ChatAdapter"] ELSE adapter0[1]

\* The note of the feedback scored in attempt k.
NoteOfAttempt(k) == scored[k].feedback.feedback

\* C12: at every point of a Retrier call the active adapter is either the
\* original one or a single RetryAdapter that wraps the original base (never
\* another RetryAdapter) and carries the note of the latest scoring; and every
\* request built in attempt k+1 after a non-empty note in attempt k carries
\* exactly one hint_ field whose value is that note, whatever the notes of the
\* attempts before k were.
C12_OneFreshAugmentation ==
    caller = "Retrier" =>
        /\ \/ adapter = adapter0
           \/ /\ scope # None /\ scope[1].kind = "context"
              /\ scored # << >> /\ Len(scored) = attempt - 1
              /\ Truthy(NoteOfAttempt(attempt - 1))
              /\ adapter = Some([kind |-> "RetryAdapter",
                                 adapter |-> OriginalBase,
                                 feedback |-> NoteOfAttempt(attempt - 1)[1]])
        /\ scopesOpened <= Len(scored)
        /\ \A i \in 1..Len(requests) :
              LET k == requests[i].attempt
              IN  (k >= 2 /\ Truthy(NoteOfAttempt(k - 1))) =>
                      requests[i].request = HintedRequest(NoteOfAttempt(k - 1)[1])

\* Attempt 3 built a request carrying "Y", the note of attempt 2, after
\* attempt 1 had been scored with the note "X".
C12_Witness ==
    /\ caller = "Retrier" /\ Len(scored) >= 2
    /\ NoteOfAttempt(1) = Some("X") /\ NoteOfAttempt(2) = Some("Y")
    /\ \E r \in RequestsOf(3) : r.inputs.hint_ = "Y"

\* C13: every request built in attempt k+1 after attempt k was scored with an
\* absent (None) or empty ("") note is the plain request, with the unmodified
\* signature and no hint_ field, and that attempt runs with the original
\* adapter under a pass-through scope, whatever the earlier notes were.
C13_EmptyNoteIsNoHint ==
    caller = "Retrier" =>
        /\ \A i \in 1..Len(requests) :
              LET k == requests[i].attempt
              IN  (k >= 2 /\ NoteOfAttempt(k - 1) \in {None, Some("")}) =>
                      /\ requests[i].request = PlainRequest
                      /\ "hint_" \notin DOMAIN requests[i].request.inputs
        /\ (scope # None /\ attempt >= 2
              /\ NoteOfAttempt(attempt - 1) \in {None, Some("")}) =>
              (scope[1].kind = "nullcontext" /\ adapter = adapter0)

\* Attempt 3 built a request after the notes "X" (attempt 1) and "" (attempt 2).
C13_Witness ==
    /\ caller = "Retrier" /\ Len(scored) >= 2
    /\ NoteOfAttempt(1) = Some("X") /\ NoteOfAttempt(2) = Some("")
    /\ RequestsOf(3) # {}

\* Attempt 3 built a request after the notes "X" (attempt 1) and None (attempt 2).
C13_WitnessAbsent ==
    /\ caller = "Retrier" /\ Len(scored) >= 2
    /\ NoteOfAttempt(1) = Some("X") /\ NoteOfAttempt(2) = None
    /\ RequestsOf(3) # {}

\* C14: in a Retrier call every step follows the order open scope, Predictor
\* call (inside the scope), close scope, scoring by the Retrier (outside any
\* scope), threshold decision: a step taken inside the Predictor call stays in
\* it or goes to the closing of the scope, also when it raises; the scoring
\* starts only from the closed scope; and a new attempt starts only from the
\* loop head, when the previous attempt's Output and Feedback both exist.
C14_StrictOrder ==
    [][caller = "Retrier" =>
          /\ pc = "for" => (pc' \in {"with", "done"} /\ scope = None)
          /\ pc = "with" => (pc' = "forward" /\ scope = None /\ scope' # None)
          /\ pc \in {"forward", "validate", "return"} =>
                /\ scope # None /\ scope' = scope
                /\ pc' \in {"validate", "return", "exit"}
                /\ exc' # None => pc' = "exit"
          /\ pc = "exit" =>
                /\ scope # None /\ scope' = None
                /\ pc' = (IF exc = None THEN "score" ELSE "done")
          /\ pc = "score" =>
                /\ scope = None /\ pc' \in {"if", "done"}
                /\ Len(outputs) = attempt /\ Len(scored) = attempt - 1
                /\ output = Some(Last(outputs))
          /\ pc = "if" =>
                /\ scope = None /\ pc' \in {"for", "done"}
                /\ Len(scored) = attempt /\ feedback = Some(Last(scored).feedback)
          /\ attempt' # attempt =>
                /\ pc = "for" /\ attempt' = attempt + 1
                /\ Len(outputs) = attempt /\ Len(scored) = attempt
          /\ scored' # scored => (pc = "score" /\ scope = None)]_vars

\* The second attempt of a call has gone through the whole cycle and is at
\* its threshold decision.
C14_Witness ==
    /\ caller = "Retrier" /\ pc = "if" /\ attempt = 2
    /\ Len(outputs) = 2 /\ Len(scored) = 2 /\ scope = None

\* The scope of the second attempt is being closed after the Predictor raised.
C14_WitnessRaised ==
    /\ caller = "Retrier" /\ pc = "exit" /\ attempt = 2
    /\ exc # None /\ scope # None /\ scope[1].kind = "context"

\* The call in progress keeps running: the code is sequential and every
\* Predictor and FeedbackModule call it makes comes back (by return or raise).
FairSpec == Spec /\ WF_vars(Next)

\* range(N) has max(N, 0) elements.
Iterations == IF N >= 0 THEN N ELSE 0

\* C15: a Retrier call that has started ends (returned Output, exhaustion
\* error or propagated exception) whatever scores and notes it meets, and at
\* no point has it made more than N Predictor invocations or more than N
\* scoring calls of its own.
C15_Terminates ==
    /\ (caller = "Retrier") ~> (pc = "done")
    /\ [](caller = "Retrier" =>
            /\ attempt <= Iterations
            /\ predCalls <= Iterations
            /\ Len(scored) <= Iterations
            /\ pc = "done" => (result # None \/ exc # None))

\* A call with N = MaxN that used all its attempts and all its scorings and
\* ended by returning the last Output.
C15_Witness ==
    /\ caller = "Retrier" /\ pc = "done" /\ N = MaxN
    /\ predCalls = N /\ Len(scored) = N /\ result # None

\* C16 (as claimed): in a Retrier call, whenever a FeedbackModule is about to
\* be invoked (by the Predictor's Validation or by the Retrier's scoring) no
\* augmentation override is installed, and while an override is installed
\* control is in the prediction itself or in the closing of the scope.
C16_FeedbackOutsideOverride ==
    caller = "Retrier" =>
        /\ pc \in {"validate", "score"} => adapter = adapter0
        /\ adapter # adapter0 => pc \in {"forward", "return", "exit"}

\* The number of FeedbackModule calls that returned a Feedback so far.
FeedbackReturns == Len(scored) + Len(validated)

\* C17: the trace changes only by a FeedbackModule call that returned, and
\* every such call changes it: the call appends exactly one record to the end
\* of the trace, leaving the earlier records as they were; the record names
\* the module called, the input and the output it was called with, and the
\* Feedback the call returned to its caller (the Retrier's local feedback, or
\* the Feedback the Validation compared); the call leaves the output, the
\* adapter, the scope and the counters of the run unchanged.
C17_TraceAppend ==
    [][/\ (trace' # trace) <=>
             (Len(scored') + Len(validated') # FeedbackReturns)
       /\ (trace' # trace) =>
             /\ pc \in {"validate", "score"}
             /\ Len(trace') = Len(trace) + 1
             /\ SubSeq(trace', 1, Len(trace)) = trace
             /\ Last(trace').args =
                   [input |-> [question |-> "What land animal has a shell?"],
                    output |-> output[1]]
             /\ pc = "score" =>
                   /\ Last(trace').module = feedback_module
                   /\ feedback' = Some(Last(trace').feedback)
                   /\ Last(scored') = [output |-> output[1],
                                        feedback |-> Last(trace').feedback]
             /\ pc = "validate" =>
                   /\ Last(trace').module = validation[1].feedback_module
                   /\ Last(validated').feedback = Last(trace').feedback
                   /\ Last(validated').output = output[1]
                   /\ feedback' = feedback
             /\ output' = output
             /\ adapter' = adapter /\ scope' = scope
             /\ requests' = requests /\ outputs' = outputs
             /\ predCalls' = predCalls /\ engineCalls' = engineCalls]_vars

\* A trace of four records: two attempts, each checked by the Validation and
\* scored by the Retrier.
C17_Witness ==
    /\ caller = "Retrier" /\ Len(trace) = 4
    /\ Len(validated) = 2 /\ Len(scored) = 2
    /\ trace[4].feedback = feedback[1]

(***************************************************************************)
(* Two concurrent invocations of one Retrier (without Validation), each in *)
(* its own execution context: dspy.context overrides and reads the         *)
(* settings of the context (thread) it runs in.                            *)
(***************************************************************************)
Invocations == {1, 2}

\* All invocations sharing the settings of one context.
ContextShared(i) == 1

\* The execution context whose settings invocation i reads and overrides.
ContextOf(i) == i

sequential ==
    <<pc, caller, N, threshold, feedback_module, validation, adapter, scope,
      trace, feedback, output, attempt, exc, result, adapter0, requests,
      outputs, scored, validated, predCalls, engineCalls, scopesOpened>>

ConcurrentInit ==
    /\ pc = "idle"
    /\ caller = "Retrier"
    /\ N \in 1..MaxConcurrentN
    /\ threshold \in Thresholds
    /\ feedback_module = "Stub"
    /\ validation = None
    /\ adapter \in Adapters
    /\ scope = None
    /\ trace = << >>
    /\ feedback = None
    /\ output = None
    /\ attempt = 0
    /\ exc = None
    /\ result = None
    /\ adapter0 = adapter
    /\ requests = << >>
    /\ outputs = << >>
    /\ scored = << >>
    /\ validated = << >>
    /\ predCalls = 0
    /\ engineCalls = 0
    /\ scopesOpened = 0
    /\ threads = [i \in Invocations |->
                    [pc |-> "idle", feedback |-> None, output |-> None,
                     attempt |-> 0, scope |-> None, exc |-> None,
                     result |-> None, requests |-> << >>, scored |-> << >>]]
    /\ settings = [c \in Invocations |-> [adapter |-> adapter, trace |-> << >>]]

\* Retrier.forward of invocation i: feedback = None, then the loop.
ThreadCall(i) ==
    /\ threads[i].pc = "idle"
    /\ threads' = [threads EXCEPT ![i].pc = "for", ![i].feedback = None]
    /\ UNCHANGED <<sequential, settings>>

\* for _ in range(self.N): ...  /  raise RuntimeError(...)
ThreadForNext(i) ==
    /\ threads[i].pc = "for"
    /\ threads' =
          IF RangeHasNext(threads[i].attempt, N)
          THEN [threads EXCEPT ![i].attempt = @ + 1, ![i].pc = "with"]
          ELSE [threads EXCEPT ![i].pc = "done", ![i].exc = Some("RuntimeError")]
    /\ UNCHANGED <<sequential, settings>>

\* with self.retry_context(feedback=feedback.feedback if feedback else None):
ThreadEnterRetryContext(i) ==
    /\ threads[i].pc = "with"
    /\ LET c == ContextOf(i)
           ctx == retry_context(NoteOf(threads[i].feedback), settings[c].adapter)
       IN  /\ threads' = [threads EXCEPT
                            ![i].scope = Some([kind |-> ctx.kind,
                                               saved |-> settings[c].adapter]),
                            ![i].pc = "forward"]
           /\ settings' = [settings EXCEPT
                             ![c].adapter = ContextEnter(ctx, settings[c].adapter)]
    /\ UNCHANGED sequential

\* Predictor.__call__, line 85: output = self.forward(input=input)
ThreadPredictorForward(i) ==
    /\ threads[i].pc = "forward"
    /\ LET req == [attempt |-> threads[i].attempt,
                   request |-> EngineRequest(settings[ContextOf(i)].adapter,
                                             Question)]
       IN  \/ \E a \in Answers(feedback_module) :
                threads' = [threads EXCEPT
                              ![i].requests = Append(@, req),
                              ![i].output = Some(Answer(a)),
                              ![i].pc = "return"]
           \/ threads' = [threads EXCEPT
                            ![i].requests = Append(@, req),
                            ![i].exc = Some("EngineError"),
                            ![i].pc = Unwind]
    /\ UNCHANGED <<sequential, settings>>

\* Predictor.__call__, line 88: return self.forward(input=input)
ThreadPredictorReturn(i) ==
    /\ threads[i].pc = "return"
    /\ LET req == [attempt |-> threads[i].attempt,
                   request |-> EngineRequest(settings[ContextOf(i)].adapter,
                                             Question)]
       IN  \/ \E a \in Answers(feedback_module) :
                threads' = [threads EXCEPT
                              ![i].requests = Append(@, req),
                              ![i].output = Some(Answer(a)),
                              ![i].pc = "exit"]
           \/ threads' = [threads EXCEPT
                            ![i].requests = Append(@, req),
                            ![i].exc = Some("EngineError"),
                            ![i].pc = Unwind]
    /\ UNCHANGED <<sequential, settings>>

\* Leaving the with block of Retrier.forward, by return or by raise.
ThreadExitRetryContext(i) ==
    /\ threads[i].pc = "exit"
    /\ LET c == ContextOf(i)
       IN  settings' = [settings EXCEPT
                          ![c].adapter = ContextExit(threads[i].scope[1],
                                                     settings[c].adapter)]
    /\ threads' = [threads EXCEPT ![i].scope = None,
                                  ![i].pc = AfterWith(threads[i].exc)]
    /\ UNCHANGED sequential

\* feedback = self.feedback_module(input=input, output=output)
ThreadScore(i) ==
    /\ threads[i].pc = "score"
    /\ \/ \E fb \in FeedbackForward(feedback_module, Question, threads[i].output[1]) :
            /\ threads' = [threads EXCEPT
                             ![i].feedback = Some(fb),
                             ![i].scored = Append(@, [output |-> threads[i].output[1],
                                                      feedback |-> fb]),
                             ![i].pc = "if"]
            /\ settings' = [settings EXCEPT
                              ![ContextOf(i)].trace =
                                  Append(@, TraceEntry(feedback_module, Question,
                                                       threads[i].output[1], fb))]
       \/ /\ FeedbackMayRaise(feedback_module)
          /\ threads' = [threads EXCEPT ![i].exc = Some("FeedbackError"),
                                        ![i].pc = "done"]
          /\ settings' = settings
    /\ UNCHANGED sequential

\* if feedback.evaluation >= self.threshold: return output
ThreadDecide(i) ==
    /\ threads[i].pc = "if"
    /\ threads' =
          IF MeetsThreshold(threads[i].feedback[1], threshold)
          THEN [threads EXCEPT ![i].pc = "done", ![i].result = threads[i].output]
          ELSE [threads EXCEPT ![i].pc = "for"]
    /\ UNCHANGED <<sequential, settings>>

ConcurrentNext ==
    \E i \in Invocations :
        \/ ThreadCall(i)
        \/ ThreadForNext(i)
        \/ ThreadEnterRetryContext(i)
        \/ ThreadPredictorForward(i)
        \/ ThreadPredictorReturn(i)
        \/ ThreadExitRetryContext(i)
        \/ ThreadScore(i)
        \/ ThreadDecide(i)

ConcurrentSpec == ConcurrentInit /\ [][ConcurrentNext]_vars

\* The note invocation i was given by its own scoring of attempt k - 1.
OwnNote(i, k) ==
    IF k >= 2 THEN threads[i].scored[k - 1].feedback.feedback ELSE None

\* C18: with each of the two invocations in its own execution context, under
\* every interleaving, every request an invocation builds in attempt k is the
\* plain request when its own attempt k-1 left no non-empty note (or k = 1),
\* and otherwise carries as its one hint_ exactly that own note; outside its
\* with block, and when it has ended, the adapter of its context is the
\* original one.
C18_IndependentContexts ==
    \A i \in Invocations :
        /\ \A j \in 1..Len(threads[i].requests) :
              LET own == OwnNote(i, threads[i].requests[j].attempt)
              IN  threads[i].requests[j].request =
                      (IF own \in {None, Some("")}
                       THEN PlainRequest ELSE HintedRequest(own[1]))
        /\ threads[i].pc \in {"idle", "for", "with", "score", "if", "done"} =>
              (settings[i].adapter = adapter0 /\ threads[i].scope = None)

\* Both invocations are inside the with block of their second attempt at the
\* same time, one with the hint "X" and the other with the hint "Y".
C18_Witness ==
    /\ threads[1].pc = "return" /\ threads[2].pc = "return"
    /\ threads[1].attempt = 2 /\ threads[2].attempt = 2
    /\ threads[1].feedback[1].feedback = Some("X")
    /\ threads[2].feedback[1].feedback = Some("Y")
    /\ Last(threads[1].requests).request.inputs.hint_ = "X"
    /\ Last(threads[2].requests).request.inputs.hint_ = "Y"

\* Both invocations have ended, one of them by an exception raised under its
\* augmentation, after overlapping with the other.
C18_WitnessEnded ==
    /\ threads[1].pc = "done" /\ threads[2].pc = "done"
    /\ threads[1].exc = Some("EngineError") /\ threads[1].attempt = 2
    /\ Truthy(threads[1].feedback[1].feedback)
    /\ threads[2].attempt = 2

\* C19: a Retrier with N <= 0 can be constructed and called; its call never
\* enters the loop body: it makes no Predictor, engine or FeedbackModule
\* invocation, opens no scope of any kind, builds no request, and ends with
\* the exhaustion error (RuntimeError) and no Output.
C19_NonPositiveN ==
    (caller = "Retrier" /\ N <= 0) =>
        /\ pc \in {"for", "done"}
        /\ attempt = 0
        /\ predCalls = 0 /\ engineCalls = 0
        /\ trace = << >> /\ scored = << >> /\ validated = << >>
        /\ requests = << >> /\ outputs = << >>
        /\ scope = None /\ scopesOpened = 0 /\ adapter = adapter0
        /\ result = None
        /\ pc = "done" <=> exc = Some("RuntimeError")

\* A call with N = -1 that has ended.
C19_Witness ==
    /\ caller = "Retrier" /\ N < 0 /\ pc = "done"
    /\ exc = Some("RuntimeError") /\ predCalls = 0

\* A call with N = 0 that has ended.
C19_WitnessZero ==
    /\ caller = "Retrier" /\ N = 0 /\ pc = "done"
    /\ exc = Some("RuntimeError") /\ predCalls = 0

====
